---- MODULE Spec2Model ----
(***************************************************************************)
(* A model of tauri-plugin-store: the file-backed key-value Store of       *)
(* src/store.rs, the older Store of src/store_file.rs, and the StoreFile   *)
(* registry with its commands and shutdown hook of src/lib.rs.             *)
(*                                                                         *)
(* The variable impl says which of the three is linked into the modelled   *)
(* program; it is chosen in Init and never changes.                        *)
(***************************************************************************)
EXTENDS Integers, Sequences, FiniteSets, TLC

\* ------------------------------------------------------------- bounds
\* The number of keys a store is given, and of operations in a run.
NumKeys == 2
MaxOps == 3

\* ------------------------------------------------------------- values
\* JsonValue::Null and two other JSON values; two store paths.
Null == 0
Keys == 1..NumKeys
JsonValues == {Null, 1, 2}
Paths == {1, 2}

\* HashMap<String, JsonValue>
HashMaps == UNION {[d -> JsonValues] : d \in SUBSET Keys}
EmptyMap == [k \in {} |-> Null]

\* An insert that keeps the value of a key the map already has.
MapInsertIfAbsent(m, k, v) == [x \in DOMAIN m \cup {k} |-> IF x \in DOMAIN m THEN m[x] ELSE v]
\* HashMap::insert
MapInsert(m, k, v) == [x \in DOMAIN m \cup {k} |-> IF x = k THEN v ELSE m[x]]
MapRemove(m, k) == [x \in DOMAIN m \ {k} |-> m[x]]
\* HashMap::extend: the entries of n are inserted into m, replacing equal keys.
MapExtend(m, n) == [x \in DOMAIN m \cup DOMAIN n |-> IF x \in DOMAIN n THEN n[x] ELSE m[x]]

\* Option<JsonValue> and the other results an operation returns.
Some(v) == [tag |-> "Some", val |-> v]
None == [tag |-> "None", val |-> Null]
Ret(tag) == [tag |-> tag, val |-> Null]
Bool(b) == Ret(IF b THEN "true" ELSE "false")
MapGet(m, k) == IF k \in DOMAIN m THEN Some(m[k]) ELSE None

\* Option<HashMap<String, JsonValue>> (the defaults field)
NoDefaults == [some |-> FALSE, map |-> EmptyMap]
SomeDefaults(d) == [some |-> TRUE, map |-> d]

\* The enumerations of a set without repeats.
Orders(S) == {o \in [1..Cardinality(S) -> S] : \A i, j \in 1..Cardinality(S) : o[i] = o[j] => i = j}
\* The iteration order of a HashMap is not specified: an operation that
\* iterates is given an enumeration of all keys (KeySeeds) and visits the
\* keys of the map in that order.
KeySeeds == Orders(Keys)
KeyOrder(m, seed) == LET In(k) == k \in DOMAIN m IN SelectSeq(seed, In)

\* ChangePayload { path, key, value }
ChangePayload(p, k, v) == [path |-> p, key |-> k, value |-> v]

\* ------------------------------------------------------------- codec
\* Bytes are sequences of integers. A JSON object is "{", then key and value
\* for each entry, then "}".
LBrace == 123
RBrace == 125

RECURSIVE JsonEntries(_, _)
JsonEntries(m, order) ==
    IF order = <<>> THEN <<>>
    ELSE <<Head(order), m[Head(order)]>> \o JsonEntries(m, Tail(order))

\* serde_json::to_vec / to_string of the cache, entries in iteration order.
SerdeJsonToVec(m, order) == <<LBrace>> \o JsonEntries(m, order) \o <<RBrace>>

RECURSIVE JsonCollect(_, _)
JsonCollect(s, acc) ==
    IF Len(s) < 2 THEN acc
    ELSE JsonCollect(Tail(Tail(s)), MapInsert(acc, s[1], s[2]))

\* serde_json::from_slice / from_str into a HashMap: a later duplicate key wins.
SerdeJsonFromSlice(s) ==
    IF /\ Len(s) >= 2
       /\ s[1] = LBrace
       /\ s[Len(s)] = RBrace
       /\ (Len(s) - 2) % 2 = 0
       /\ \A i \in 2..(Len(s) - 1) : s[i] \notin {LBrace, RBrace}
    THEN [ok |-> TRUE, map |-> JsonCollect(SubSeq(s, 2, Len(s) - 1), EmptyMap)]
    ELSE [ok |-> FALSE, map |-> EmptyMap]

\* bincode::serialize of a String: the length, then the bytes.
BincodeSerialize(s) == <<Len(s)>> \o s

\* bincode::deserialize::<String>: trailing bytes are allowed.
BincodeDeserialize(b) ==
    IF Len(b) >= 1 /\ b[1] <= Len(b) - 1
    THEN [ok |-> TRUE, str |-> SubSeq(b, 2, 1 + b[1])]
    ELSE [ok |-> FALSE, str |-> <<>>]

\* store.rs default_serialize / default_deserialize
default_serialize(m, order) == SerdeJsonToVec(m, order)
default_deserialize(bytes) == SerdeJsonFromSlice(bytes)

\* store_file.rs default_serialize / default_deserialize, and the same pair
\* inlined in lib.rs (StoreFile::load, on_event).
bincode_serialize(m, order) == BincodeSerialize(SerdeJsonToVec(m, order))
bincode_deserialize(bytes) ==
    IF BincodeDeserialize(bytes).ok
    THEN SerdeJsonFromSlice(BincodeDeserialize(bytes).str)
    ELSE [ok |-> FALSE, map |-> EmptyMap]

\* ------------------------------------------------------------- files
AppDir == "app_dir"
WorkDirs == {AppDir, "elsewhere"}
Locations == WorkDirs \X Paths

NoFile == [exists |-> FALSE, bytes |-> <<>>]
File(bytes) == [exists |-> TRUE, bytes |-> bytes]
\* Bytes no codec accepts.
CorruptBytes == <<RBrace, LBrace>>

\* PathBuf::join of a directory and a relative store path.
Join(dir, p) == <<dir, p>>

\* std::fs::read / tauri::api::file::read_binary
Read(d, loc) == IF d[loc].exists THEN [ok |-> TRUE, bytes |-> d[loc].bytes]
                ELSE [ok |-> FALSE, bytes |-> <<>>]

\* What File::create followed by write_all(bytes) leaves at loc:
\*   "create_err": the file could not be created, nothing changes;
\*   "write_err":  the file was created (truncated) and the write stopped
\*                 after n < Len(bytes) bytes;
\*   "ok":         the file holds bytes.
CreateAndWrite(d, loc, bytes, outcome, n) ==
    CASE outcome = "create_err" -> d
      [] outcome = "write_err" -> [d EXCEPT ![loc] = File(SubSeq(bytes, 1, n))]
      [] OTHER -> [d EXCEPT ![loc] = File(bytes)]

\* ------------------------------------------------------------- state
VARIABLES
    impl,      \* "store" (store.rs), "store_file" (store_file.rs) or "plugin" (lib.rs)
    cwd,       \* the directory a relative path given to File::create resolves in
    disk,      \* the file at each location
    store,     \* the Store under test (store.rs, store_file.rs)
    stores,    \* the managed StoreCollection: path -> StoreFile (lib.rs)
    config,    \* the plugin configuration: path -> default entries (lib.rs)
    phase,     \* lib.rs: "init", "running", "exited"
    op,        \* the last operation: its name, arguments and result
    emitted,   \* the "store://change" emit calls the last operation made, in order
    env,       \* path -> how the file system answered the last save of that store
    saved,     \* path -> the cache its last save wrote in full, while the file is as written
    nops,      \* operations performed so far
    lock,      \* the caller holding the Mutex of the StoreCollection, or NoHolder
    pc,        \* caller -> where it is in its command
    cur,       \* caller -> the command it is running
    hist,      \* the commands applied so far, in order, with what each returned
    pending,   \* caller -> the emit calls its command has still to make
    events     \* every emit call made by the concurrent commands, in order

concVars == <<lock, pc, cur, hist, pending, events>>
vars == <<impl, cwd, disk, store, stores, config, phase, op, emitted, env, saved, nops, concVars>>

Impls == {"store", "store_file", "plugin"}

\* struct Store / struct StoreFile: path, defaults, cache
StoreRec(p, defaults, cache) == [path |-> p, defaults |-> defaults, cache |-> cache]

\* The last operation.
Op(name, p, k, v, ret) == [name |-> name, path |-> p, key |-> k, value |-> v, ret |-> ret]

\* The callers of the plugin's commands, and the Mutex when nobody holds it.
NumCallers == 2
Callers == 1..NumCallers
NoHolder == 0
\* The Mutex after a thread panicked while holding its guard.
Poisoned == -1
\* A lock that hands out the guard of a poisoned Mutex.
MutexLockIgnoringPoison(holder) == holder \in {NoHolder, Poisoned}
\* A lock that any caller gets at once.
MutexLockShared(holder) == TRUE
\* Mutex::lock: whether the caller gets the guard.
MutexLock(holder) == holder = NoHolder
\* Mutex::lock returns Err(PoisonError), on which unwrap() panics.
MutexPoisoned(holder) == holder = Poisoned

\* ------------------------------------------------------------- store.rs
\* StoreBuilder::new(path).build()
StoreBuilderNew(p) == StoreRec(p, NoDefaults, EmptyMap)
\* StoreBuilder::new(path).defaults(d).build()
StoreBuilderDefaults(p, d) == StoreRec(p, SomeDefaults(d), d)

\* The emit calls for the keys of order, each with value Null.
NullEvents(p, order) == [i \in 1..Len(order) |-> ChangePayload(p, order[i], Null)]

\* An insert that emits nothing when the key already holds the value.
StoreInsertIfChanged(s, key, value, emitOk) ==
    [cache |-> MapInsert(s.cache, key, value),
     emitted |-> IF MapGet(s.cache, key) = Some(value) THEN <<>>
                 ELSE <<ChangePayload(s.path, key, value)>>,
     ret |-> IF emitOk THEN Ret("Ok") ELSE Ret("Tauri")]
\* Store::insert. emitOk: whether app.emit returned Ok.
StoreInsert(s, key, value, emitOk) ==
    [cache |-> MapInsert(s.cache, key, value),
     emitted |-> <<ChangePayload(s.path, key, value)>>,
     ret |-> IF emitOk THEN Ret("Ok") ELSE Ret("Tauri")]

\* Store::get, Store::has
StoreGet(s, key) == MapGet(s.cache, key)
StoreHas(s, key) == key \in DOMAIN s.cache

\* A delete that emits whether or not the key was there.
StoreDeleteAlwaysEmits(s, key, emitOk) ==
    [cache |-> MapRemove(s.cache, key),
     emitted |-> <<ChangePayload(s.path, key, Null)>>,
     ret |-> IF ~emitOk THEN Ret("Tauri") ELSE Bool(key \in DOMAIN s.cache)]
\* Store::delete
StoreDelete(s, key, emitOk) ==
    LET flag == key \in DOMAIN s.cache
    IN  [cache |-> MapRemove(s.cache, key),
         emitted |-> IF flag THEN <<ChangePayload(s.path, key, Null)>> ELSE <<>>,
         ret |-> IF flag /\ ~emitOk THEN Ret("Tauri") ELSE Bool(flag)]

\* A clear that keeps the cache when an emit call fails.
StoreClearRollingBack(s, order, failAt) ==
    [cache |-> IF failAt = 0 THEN EmptyMap ELSE s.cache,
     emitted |-> SubSeq(NullEvents(s.path, order), 1,
                        IF failAt = 0 THEN Len(order) ELSE failAt),
     ret |-> IF failAt = 0 THEN Ret("Ok") ELSE Ret("Tauri")]
\* Store::clear. order: the iteration order of cache.keys(); failAt: the emit
\* call that returned Err (0: none), after which clear returns.
StoreClear(s, order, failAt) ==
    [cache |-> EmptyMap,
     emitted |-> SubSeq(NullEvents(s.path, order), 1,
                        IF failAt = 0 THEN Len(order) ELSE failAt),
     ret |-> IF failAt = 0 THEN Ret("Ok") ELSE Ret("Tauri")]

\* Emit calls for every key of the cache, whether or not it holds its default.
ResetEventsForAll(p, cache, defaults, order) ==
    [i \in 1..Len(order) |->
        ChangePayload(p, order[i], IF order[i] \in DOMAIN defaults THEN defaults[order[i]] ELSE Null)]
\* The emit calls of reset with defaults: one for each key of the cache, in
\* iteration order, whose value is not its default.
ResetEvents(p, cache, defaults, order) ==
    LET Differs(k) == MapGet(defaults, k) # Some(cache[k])
        ks == SelectSeq(order, Differs)
    IN  [i \in 1..Len(ks) |->
            ChangePayload(p, ks[i], IF ks[i] \in DOMAIN defaults THEN defaults[ks[i]] ELSE Null)]

\* Store::reset
StoreReset(s, order, failAt) ==
    IF s.defaults.some
    THEN [cache |-> s.defaults.map,
          emitted |-> ResetEvents(s.path, s.cache, s.defaults.map, order),
          ret |-> Ret("Ok")]
    ELSE StoreClear(s, order, failAt)

\* Store::load (store.rs): the decoded entries extend the cache.
\* A load that empties the cache before it reads the file.
StoreLoadClearing(s, d) ==
    LET r == Read(d, Join(AppDir, s.path))
        dec == default_deserialize(r.bytes)
    IN  IF ~r.ok THEN [cache |-> EmptyMap, ret |-> Ret("Io")]
        ELSE IF ~dec.ok THEN [cache |-> EmptyMap, ret |-> Ret("Deserialize")]
        ELSE [cache |-> dec.map, ret |-> Ret("Ok")]
StoreLoad(s, d) ==
    LET r == Read(d, Join(AppDir, s.path))
        dec == default_deserialize(r.bytes)
    IN  IF ~r.ok THEN [cache |-> s.cache, ret |-> Ret("Io")]
        ELSE IF ~dec.ok THEN [cache |-> s.cache, ret |-> Ret("Deserialize")]
        ELSE [cache |-> MapExtend(s.cache, dec.map), ret |-> Ret("Ok")]

SaveOutcomes == {"ok", "mkdir_err", "serialize_err", "create_err", "write_err"}

\* Store::save (store.rs): create_dir_all, serialize, File::create(store_path),
\* write_all.
StoreSavePath(s, wd) == Join(AppDir, s.path)
\* A save that creates the file before it encodes the cache.
StoreSaveCreatingFirst(s, d, wd, order, outcome, n) ==
    IF outcome = "mkdir_err" THEN [disk |-> d, ret |-> Ret("Io")]
    ELSE IF outcome = "serialize_err"
         THEN [disk |-> [d EXCEPT ![StoreSavePath(s, wd)] = File(<<>>)], ret |-> Ret("Serialize")]
    ELSE [disk |-> CreateAndWrite(d, StoreSavePath(s, wd), default_serialize(s.cache, order),
                                  outcome, n),
          ret |-> IF outcome = "ok" THEN Ret("Ok") ELSE Ret("Io")]
StoreSave(s, d, wd, order, outcome, n) ==
    IF outcome = "mkdir_err" THEN [disk |-> d, ret |-> Ret("Io")]
    ELSE IF outcome = "serialize_err" THEN [disk |-> d, ret |-> Ret("Serialize")]
    ELSE [disk |-> CreateAndWrite(d, StoreSavePath(s, wd), default_serialize(s.cache, order),
                                  outcome, n),
          ret |-> IF outcome = "ok" THEN Ret("Ok") ELSE Ret("Io")]

\* ------------------------------------------------------------- store_file.rs
\* Store::load (store_file.rs): the decoded map replaces the cache.
SfLoad(s, d) ==
    LET r == Read(d, Join(AppDir, s.path))
        dec == bincode_deserialize(r.bytes)
    IN  IF ~r.ok THEN [cache |-> s.cache, ret |-> Ret("Io")]
        ELSE IF ~dec.ok THEN [cache |-> s.cache, ret |-> Ret("Deserialize")]
        ELSE [cache |-> dec.map, ret |-> Ret("Ok")]

\* Store::save (store_file.rs): the directory of app_dir.join(path) is
\* created, and the file is created at self.path, which resolves in cwd.
SfSavePath(s, wd) == Join(wd, s.path)
SfSave(s, d, wd, order, outcome, n) ==
    IF outcome = "mkdir_err" THEN [disk |-> d, ret |-> Ret("Io")]
    ELSE IF outcome = "serialize_err" THEN [disk |-> d, ret |-> Ret("Serialize")]
    ELSE [disk |-> CreateAndWrite(d, SfSavePath(s, wd), bincode_serialize(s.cache, order),
                                  outcome, n),
          ret |-> IF outcome = "ok" THEN Ret("Ok") ELSE Ret("Io")]

\* ------------------------------------------------------------- lib.rs
\* StoreFile::new, StoreFile::with_defaults
StoreFileNew(p) == StoreRec(p, NoDefaults, EmptyMap)
StoreFileWithDefaults(p, d) == StoreRec(p, SomeDefaults(d), d)

\* StoreFile::load: a decoded state replaces the cache; a failure to read or
\* to decode is dropped and the store is returned as it was.
\* A load that, when it fails, leaves a null entry for the first key.
StoreFileLoadMarking(s, d) ==
    LET r == Read(d, Join(AppDir, s.path))
        dec == bincode_deserialize(r.bytes)
    IN  IF r.ok /\ dec.ok THEN [s EXCEPT !.cache = dec.map]
        ELSE [s EXCEPT !.cache = MapInsert(s.cache, 1, Null)]
StoreFileLoad(s, d) ==
    LET r == Read(d, Join(AppDir, s.path))
        dec == bincode_deserialize(r.bytes)
    IN  IF r.ok /\ dec.ok THEN [s EXCEPT !.cache = dec.map] ELSE s

\* StoreFile::set, StoreFile::get, StoreFile::remove
StoreFileSet(s, key, value) == [s EXCEPT !.cache = MapInsert(s.cache, key, value)]
StoreFileGet(s, key) == MapGet(s.cache, key)
StoreFileRemove(s, key) == [s EXCEPT !.cache = MapRemove(s.cache, key)]

\* StoreCollection::default()
EmptyCollection == [p \in {} |-> StoreFileNew(p)]

\* A with_store that creates and loads the store on every call.
WithStoreEntryReloading(ss, d, p) ==
    [q \in DOMAIN ss \cup {p} |-> IF q = p THEN StoreFileLoad(StoreFileNew(p), d) ELSE ss[q]]
\* with_store, up to the call of f: the entry for path, created and loaded
\* when the collection has none.
WithStoreEntry(ss, d, p) ==
    IF p \in DOMAIN ss THEN ss
    ELSE [q \in DOMAIN ss \cup {p} |-> IF q = p THEN StoreFileLoad(StoreFileNew(p), d) ELSE ss[q]]

\* The closures the commands pass to with_store: the store after f, the emit
\* calls f made and what the command returns.
SetF(s, key, value) ==
    [store |-> StoreFileSet(s, key, value),
     emitted |-> <<ChangePayload(s.path, key, value)>>,
     ret |-> Ret("Ok")]
GetF(s, key) == [store |-> s, emitted |-> <<>>, ret |-> StoreFileGet(s, key)]
HasF(s, key) == [store |-> s, emitted |-> <<>>, ret |-> Bool(StoreFileGet(s, key).tag = "Some")]
DeleteF(s, key) ==
    LET flag == StoreFileGet(s, key).tag = "Some"
    IN  [store |-> StoreFileRemove(s, key),
         emitted |-> IF flag THEN <<ChangePayload(s.path, key, Null)>> ELSE <<>>,
         ret |-> Bool(flag)]
ClearF(s, order) ==
    [store |-> [s EXCEPT !.cache = EmptyMap],
     emitted |-> NullEvents(s.path, order),
     ret |-> Ret("Ok")]
\* A reset that, without defaults, empties the cache and emits nothing.
ResetFSilent(s, order) ==
    IF s.defaults.some
    THEN [store |-> [s EXCEPT !.cache = s.defaults.map],
          emitted |-> ResetEvents(s.path, s.cache, s.defaults.map, order),
          ret |-> Ret("Ok")]
    ELSE [store |-> [s EXCEPT !.cache = EmptyMap], emitted |-> <<>>, ret |-> Ret("Ok")]
\* reset: with defaults as Store::reset; without, the keys are collected, the
\* cache is replaced by an empty one and an emit call is made for each key.
ResetF(s, order) ==
    IF s.defaults.some
    THEN [store |-> [s EXCEPT !.cache = s.defaults.map],
          emitted |-> ResetEvents(s.path, s.cache, s.defaults.map, order),
          ret |-> Ret("Ok")]
    ELSE [store |-> [s EXCEPT !.cache = EmptyMap],
          emitted |-> [i \in 1..Len(order) |-> ChangePayload(s.path, order[i], Null)],
          ret |-> Ret("Ok")]

\* Plugin::initialize: the collection built from the "defaults" of the
\* configuration, each store loaded ...
ConfiguredStores(cfg, d) ==
    [p \in DOMAIN cfg |-> StoreFileLoad(StoreFileWithDefaults(p, cfg[p]), d)]
\* ... is the value of a map() whose result is dropped; what app.manage
\* receives is StoreCollection::default().
InitializeManaged(cfg, d) ==
    LET built == ConfiguredStores(cfg, d) IN EmptyCollection

\* Plugin::on_event(Exit), one store: File::create(&store.path), which
\* resolves in cwd, then to_string, bincode::serialize and write_all.
ExitOutcomes == {"ok", "create_err", "serialize_err", "write_err"}
ExitSavePath(s, wd) == Join(wd, s.path)
ExitSaveOne(d, s, wd, plan) ==
    IF plan.outcome = "serialize_err"
    THEN [d EXCEPT ![ExitSavePath(s, wd)] = File(<<>>)]
    ELSE CreateAndWrite(d, ExitSavePath(s, wd), bincode_serialize(s.cache, plan.order),
                        plan.outcome, plan.n)

\* The loop over stores.values(): iter is the iteration order, plans[p] what
\* happens to the store at p. An error is dropped (let _ =) and the loop goes on.
RECURSIVE ExitSaveAllAborting(_, _, _, _, _)
\* A loop that ends at the first store whose save fails.
ExitSaveAllAborting(d, ss, wd, iter, plans) ==
    IF iter = <<>> THEN d
    ELSE IF plans[Head(iter)].outcome # "ok"
         THEN ExitSaveOne(d, ss[Head(iter)], wd, plans[Head(iter)])
         ELSE ExitSaveAllAborting(ExitSaveOne(d, ss[Head(iter)], wd, plans[Head(iter)]),
                                  ss, wd, Tail(iter), plans)
RECURSIVE ExitSaveAll(_, _, _, _, _)
ExitSaveAll(d, ss, wd, iter, plans) ==
    IF iter = <<>> THEN d
    ELSE ExitSaveAll(ExitSaveOne(d, ss[Head(iter)], wd, plans[Head(iter)]),
                     ss, wd, Tail(iter), plans)

\* on_event(Exit): nothing is saved unless create_dir_all(app_dir) is Ok.
OnExitDisk(d, ss, wd, dirOk, iter, plans) ==
    IF dirOk THEN ExitSaveAll(d, ss, wd, iter, plans) ELSE d

\* ------------------------------------------------------------- initial states
\* The Store under test lives at StorePath.
StorePath == 1
\* The default entries a store is built with or configured with.
DefaultsChoices == {[k \in 1..n |-> 1] : n \in 1..(NumKeys - 1)}
\* A plugin configuration: no "defaults", or defaults for the first path.
ConfigChoices == {[p \in {} |-> EmptyMap]} \cup {[p \in {StorePath} |-> dm] : dm \in DefaultsChoices}
\* The entries of a file that is valid when the program starts.
SampleMap == [k \in {NumKeys} |-> 2]

Serialize(i, m, order) ==
    IF i = "store" THEN default_serialize(m, order) ELSE bincode_serialize(m, order)
Deserialize(i, bytes) ==
    IF i = "store" THEN default_deserialize(bytes) ELSE bincode_deserialize(bytes)

\* A file of the application directory at start: absent, corrupt or valid.
InitialFiles(i) == {NoFile, File(CorruptBytes), File(Serialize(i, SampleMap, <<NumKeys>>))}
\* At start the only file is the one at StorePath in the application directory.
InitialDisks(i) ==
    {[loc \in Locations |-> IF loc = Join(AppDir, StorePath) THEN f ELSE NoFile] :
        f \in InitialFiles(i)}
InitialStores ==
    {StoreBuilderNew(StorePath)} \cup {StoreBuilderDefaults(StorePath, dm) : dm \in DefaultsChoices}

NoEnv == [p \in {} |-> "ok"]
NoSaved == [p \in {} |-> EmptyMap]
\* saved after the store at p with cache m was saved with this outcome.
Saved(sv, p, m, outcome) ==
    IF outcome = "ok" THEN [q \in DOMAIN sv \cup {p} |-> IF q = p THEN m ELSE sv[q]]
    ELSE IF outcome \in {"mkdir_err", "create_err", "skipped"} THEN sv
    ELSE [q \in DOMAIN sv \ {p} |-> sv[q]]

Init ==
    /\ impl \in Impls
    /\ cwd \in WorkDirs
    /\ disk \in InitialDisks(impl)
    /\ store \in (IF impl = "plugin" THEN {StoreBuilderNew(StorePath)} ELSE InitialStores)
    /\ stores = EmptyCollection
    /\ config \in (IF impl = "plugin" THEN ConfigChoices ELSE {[p \in {} |-> EmptyMap]})
    /\ phase = (IF impl = "plugin" THEN "init" ELSE "built")
    /\ op = Op("none", StorePath, 1, Null, Ret("Ok"))
    /\ emitted = <<>>
    /\ env = NoEnv
    /\ saved = NoSaved
    /\ nops = 0
    /\ lock = NoHolder
    /\ pc = [c \in Callers |-> "idle"]
    /\ cur = [c \in Callers |-> Op("none", StorePath, 1, Null, Ret("Ok"))]
    /\ hist = <<>>
    /\ pending = [c \in Callers |-> <<>>]
    /\ events = <<>>

\* The record of an operation that has run.
Done(name, p, k, v, ret, ev, e) ==
    /\ op' = Op(name, p, k, v, ret)
    /\ emitted' = ev
    /\ env' = e
    /\ nops' = nops + 1
    /\ UNCHANGED concVars

\* Where a failed write_all stopped: before the first byte (short) or before
\* the last one.
WriteCut(bytes, short) == IF short THEN 0 ELSE Len(bytes) - 1

\* ------------------------------------------------------------- actions: Store
Build(defaults) ==
    /\ impl \in {"store", "store_file"}
    /\ nops < MaxOps
    /\ store' = (IF defaults.some THEN StoreBuilderDefaults(StorePath, defaults.map)
                 ELSE StoreBuilderNew(StorePath))
    /\ Done("build", StorePath, 1, Null, Ret("Ok"), <<>>, NoEnv)
    /\ UNCHANGED <<impl, cwd, disk, stores, config, phase, saved>>

Insert(key, value, emitOk) ==
    /\ impl = "store"
    /\ nops < MaxOps
    /\ LET r == StoreInsert(store, key, value, emitOk)
       IN  /\ store' = [store EXCEPT !.cache = r.cache]
           /\ Done("insert", store.path, key, value, r.ret, r.emitted, NoEnv)
    /\ UNCHANGED <<impl, cwd, disk, stores, config, phase, saved>>

Get(key) ==
    /\ impl = "store"
    /\ nops < MaxOps
    /\ Done("get", store.path, key, Null, StoreGet(store, key), <<>>, NoEnv)
    /\ UNCHANGED <<impl, cwd, disk, store, stores, config, phase, saved>>

Has(key) ==
    /\ impl = "store"
    /\ nops < MaxOps
    /\ Done("has", store.path, key, Null, Bool(StoreHas(store, key)), <<>>, NoEnv)
    /\ UNCHANGED <<impl, cwd, disk, store, stores, config, phase, saved>>

Delete(key, emitOk) ==
    /\ impl = "store"
    /\ nops < MaxOps
    /\ LET r == StoreDelete(store, key, emitOk)
       IN  /\ store' = [store EXCEPT !.cache = r.cache]
           /\ Done("delete", store.path, key, Null, r.ret, r.emitted, NoEnv)
    /\ UNCHANGED <<impl, cwd, disk, stores, config, phase, saved>>

Clear(order, failAt) ==
    /\ impl = "store"
    /\ nops < MaxOps
    /\ failAt <= Len(order)
    /\ LET r == StoreClear(store, order, failAt)
       IN  /\ store' = [store EXCEPT !.cache = r.cache]
           /\ Done("clear", store.path, 1, Null, r.ret, r.emitted, NoEnv)
    /\ UNCHANGED <<impl, cwd, disk, stores, config, phase, saved>>

Reset(order, failAt) ==
    /\ impl = "store"
    /\ nops < MaxOps
    /\ failAt <= Len(order)
    /\ LET r == StoreReset(store, order, failAt)
       IN  /\ store' = [store EXCEPT !.cache = r.cache]
           /\ Done("reset", store.path, 1, Null, r.ret, r.emitted, NoEnv)
    /\ UNCHANGED <<impl, cwd, disk, stores, config, phase, saved>>

Load ==
    /\ impl \in {"store", "store_file"}
    /\ nops < MaxOps
    /\ LET r == IF impl = "store" THEN StoreLoad(store, disk) ELSE SfLoad(store, disk)
       IN  /\ store' = [store EXCEPT !.cache = r.cache]
           /\ Done("load", store.path, 1, Null, r.ret, <<>>, NoEnv)
    /\ UNCHANGED <<impl, cwd, disk, stores, config, phase, saved>>

Save(order, outcome, short) ==
    /\ impl \in {"store", "store_file"}
    /\ nops < MaxOps
    /\ outcome # "write_err" => short
    /\ LET n == WriteCut(Serialize(impl, store.cache, order), short)
           r == IF impl = "store" THEN StoreSave(store, disk, cwd, order, outcome, n)
                ELSE SfSave(store, disk, cwd, order, outcome, n)
       IN  /\ disk' = r.disk
           /\ Done("save", store.path, 1, Null, r.ret, <<>>, [p \in {store.path} |-> outcome])
           /\ saved' = (IF r.disk = disk /\ outcome # "ok" THEN saved
                        ELSE Saved(saved, store.path, store.cache, outcome))
    /\ UNCHANGED <<impl, cwd, store, stores, config, phase>>

StoreNext ==
    \/ \E d \in {NoDefaults} \cup {SomeDefaults(dm) : dm \in DefaultsChoices} : Build(d)
    \/ \E k \in Keys, v \in JsonValues, e \in BOOLEAN : Insert(k, v, e)
    \/ \E k \in Keys : Get(k)
    \/ \E k \in Keys : Has(k)
    \/ \E k \in Keys, e \in BOOLEAN : Delete(k, e)
    \/ \E seed \in KeySeeds, f \in 0..NumKeys : Clear(KeyOrder(store.cache, seed), f)
    \/ \E seed \in KeySeeds, f \in 0..NumKeys : Reset(KeyOrder(store.cache, seed), f)
    \/ Load
    \/ \E seed \in KeySeeds, out \in SaveOutcomes, short \in BOOLEAN :
          Save(KeyOrder(store.cache, seed), out, short)

\* ------------------------------------------------------------- actions: plugin
Initialize ==
    /\ impl = "plugin"
    /\ phase = "init"
    /\ stores' = InitializeManaged(config, disk)
    /\ phase' = "running"
    /\ op' = Op("initialize", StorePath, 1, Null, Ret("Ok"))
    /\ emitted' = <<>>
    /\ env' = NoEnv
    /\ UNCHANGED <<impl, cwd, disk, store, config, saved, nops, concVars>>

\* A command whose f works on one cache shared by all the stores.
CommandOnSharedCache(name, p, k, v, r, ss) ==
    /\ impl = "plugin"
    /\ phase = "running"
    /\ nops < MaxOps
    /\ stores' = [q \in DOMAIN ss |-> [ss[q] EXCEPT !.cache = r.store.cache]]
    /\ Done(name, p, k, v, r.ret, r.emitted, NoEnv)
    /\ UNCHANGED <<impl, cwd, disk, store, config, phase, saved>>
\* A command: with_store(path, f).
Command(name, p, k, v, r, ss) ==
    /\ impl = "plugin"
    /\ phase = "running"
    /\ nops < MaxOps
    /\ stores' = [ss EXCEPT ![p] = r.store]
    /\ Done(name, p, k, v, r.ret, r.emitted, NoEnv)
    /\ UNCHANGED <<impl, cwd, disk, store, config, phase, saved>>

CmdSet(p, key, value) ==
    LET ss == WithStoreEntry(stores, disk, p)
    IN  Command("set", p, key, value, SetF(ss[p], key, value), ss)

CmdGet(p, key) ==
    LET ss == WithStoreEntry(stores, disk, p)
    IN  Command("get", p, key, Null, GetF(ss[p], key), ss)

CmdHas(p, key) ==
    LET ss == WithStoreEntry(stores, disk, p)
    IN  Command("has", p, key, Null, HasF(ss[p], key), ss)

CmdDelete(p, key) ==
    LET ss == WithStoreEntry(stores, disk, p)
    IN  Command("delete", p, key, Null, DeleteF(ss[p], key), ss)

CmdClear(p, seed) ==
    LET ss == WithStoreEntry(stores, disk, p)
    IN  Command("clear", p, 1, Null, ClearF(ss[p], KeyOrder(ss[p].cache, seed)), ss)

CmdReset(p, seed) ==
    LET ss == WithStoreEntry(stores, disk, p)
    IN  Command("reset", p, 1, Null, ResetF(ss[p], KeyOrder(ss[p].cache, seed)), ss)

\* What happens to the save of each store at shutdown: outs[p] is the outcome
\* for the store at p, seed gives the order its entries are written in.
ExitPlans(ss, outs, seed, short) ==
    [p \in DOMAIN ss |->
        [outcome |-> outs[p],
         order |-> KeyOrder(ss[p].cache, seed),
         n |-> WriteCut(bincode_serialize(ss[p].cache, KeyOrder(ss[p].cache, seed)), short)]]

\* saved after the shutdown pass: the files written are those of ExitSavePath.
SavedAtExit(sv, ss, wd, outs) ==
    LET touched == {p \in DOMAIN ss : outs[p] \in {"serialize_err", "write_err"}}
        written == {p \in DOMAIN ss : outs[p] = "ok"}
    IN  [q \in (DOMAIN sv \ touched) \cup written |-> IF q \in written THEN ss[q].cache ELSE sv[q]]

OnEventExit(dirOk, pathSeed, outs, seed, short) ==
    /\ impl = "plugin"
    /\ phase = "running"
    /\ MutexLock(lock)
    /\ nops < MaxOps
    /\ dirOk \/ \A p \in DOMAIN stores : outs[p] = "ok"
    /\ short \/ \E p \in DOMAIN stores : outs[p] = "write_err"
    /\ LET In(p) == p \in DOMAIN stores
           iter == SelectSeq(pathSeed, In)
       IN  disk' = OnExitDisk(disk, stores, cwd, dirOk, iter, ExitPlans(stores, outs, seed, short))
    /\ phase' = "exited"
    /\ Done("exit", StorePath, 1, Null, Ret("Ok"), <<>>,
            [p \in DOMAIN stores |-> IF dirOk THEN outs[p] ELSE "skipped"])
    /\ saved' = SavedAtExit(saved, stores, cwd, [p \in DOMAIN stores |-> IF dirOk THEN outs[p] ELSE "skipped"])
    /\ UNCHANGED <<impl, cwd, store, stores, config>>

\* The application is started again: a new process, the same files.
Restart ==
    /\ impl = "plugin"
    /\ phase = "exited"
    /\ stores' = EmptyCollection
    /\ phase' = "init"
    /\ op' = Op("restart", StorePath, 1, Null, Ret("Ok"))
    /\ emitted' = <<>>
    /\ env' = NoEnv
    /\ UNCHANGED <<impl, cwd, disk, store, config, saved, nops, concVars>>

CommandNext ==
    \/ Initialize
    \/ \E p \in Paths, k \in Keys, v \in JsonValues : CmdSet(p, k, v)
    \/ \E p \in Paths, k \in Keys : CmdGet(p, k)
    \/ \E p \in Paths, k \in Keys : CmdHas(p, k)
    \/ \E p \in Paths, k \in Keys : CmdDelete(p, k)
    \/ \E p \in Paths, seed \in KeySeeds : CmdClear(p, seed)
    \/ \E p \in Paths, seed \in KeySeeds : CmdReset(p, seed)

PluginNext ==
    \/ CommandNext
    \/ \E dirOk \in BOOLEAN, pathSeed \in Orders(Paths), outs \in [DOMAIN stores -> ExitOutcomes],
          seed \in KeySeeds, short \in BOOLEAN :
              OnEventExit(dirOk, pathSeed, outs, seed, short)
    \/ Restart

Next == StoreNext \/ PluginNext

Spec == Init /\ [][Next]_vars

\* The program with the Store of store.rs or store_file.rs alone, and with
\* the plugin of lib.rs alone.
InitStore == Init /\ impl # "plugin"
InitPlugin == Init /\ impl = "plugin"
SpecStore == InitStore /\ [][StoreNext]_vars
SpecPlugin == InitPlugin /\ [][PluginNext]_vars
\* The plugin up to shutdown: initialization and the commands.
SpecCommands == InitPlugin /\ [][CommandNext]_vars

\* The backing file of a store is replaced from outside the plugin while it
\* runs (it is an ordinary file of the application directory).
OtherFile == File(bincode_serialize([k \in {1} |-> 2], <<1>>))
FileChanged(p, f) ==
    /\ impl = "plugin"
    /\ phase = "running"
    /\ nops < MaxOps
    /\ f # disk[Join(AppDir, p)]
    /\ disk' = [disk EXCEPT ![Join(AppDir, p)] = f]
    /\ Done("file_changed", p, 1, Null, Ret("Ok"), <<>>, NoEnv)
    /\ UNCHANGED <<impl, cwd, store, stores, config, phase, saved>>

\* The commands of the plugin while the files change under it.
SpecRegistry ==
    InitPlugin /\ [][CommandNext \/ \E p \in Paths, f \in InitialFiles("plugin") \cup {OtherFile} :
                                        FileChanged(p, f)]_vars

\* ------------------------------------------------------------- concurrent callers
\* The commands run as concurrent tasks. Each goes through with_store:
\*   "wait"     the command was invoked and is at stores.0.lock()
\*   "locked"   it holds the guard and is at stores.entry(path)
\*   "vacant"   the entry was vacant: or_insert_with is to create and load the store
\*   "found"    it has the store and is to call f
\*   "emitting" f has changed the store and has emit calls to make
\*   "applied"  f has returned; the guard is dropped when with_store returns
\*   "panicked" the load of a new store panicked (expect on app_dir), which
\*              poisons the Mutex as the guard is dropped
\*   "aborted"  lock() returned Err(PoisonError) and unwrap() panicked

\* f of a command, applied to store s.
ApplyF(o, s, seed) ==
    CASE o.name = "set" -> SetF(s, o.key, o.value)
      [] o.name = "get" -> GetF(s, o.key)
      [] o.name = "has" -> HasF(s, o.key)
      [] o.name = "delete" -> DeleteF(s, o.key)
      [] o.name = "clear" -> ClearF(s, KeyOrder(s.cache, seed))
      [] OTHER -> ResetF(s, KeyOrder(s.cache, seed))

\* The commands a caller may invoke on the store at StorePath.
ConcCommands ==
    {Op("set", StorePath, k, v, Ret("Ok")) : k \in Keys, v \in JsonValues \ {Null}}
    \cup {Op(n, StorePath, k, Null, Ret("Ok")) : n \in {"get", "delete"}, k \in Keys}
    \cup {Op(n, StorePath, 1, Null, Ret("Ok")) : n \in {"clear", "reset"}}

\* What no step of a command or of a poisoned shutdown changes.
fixedVars == <<impl, cwd, disk, store, config, env, saved>>

Invoke(c, o) ==
    /\ phase = "running"
    /\ pc[c] = "idle"
    /\ nops < MaxOps
    /\ nops' = nops + 1
    /\ cur' = [cur EXCEPT ![c] = o]
    /\ pc' = [pc EXCEPT ![c] = "wait"]
    /\ UNCHANGED <<fixedVars, stores, phase, op, emitted, lock, hist, pending, events>>

Acquire(c) ==
    /\ pc[c] = "wait"
    /\ MutexLock(lock)
    /\ lock' = c
    /\ pc' = [pc EXCEPT ![c] = "locked"]
    /\ UNCHANGED <<fixedVars, stores, phase, op, emitted, nops, cur, hist, pending, events>>

AcquirePoisoned(c) ==
    /\ pc[c] = "wait"
    /\ MutexPoisoned(lock)
    /\ pc' = [pc EXCEPT ![c] = "aborted"]
    /\ UNCHANGED <<fixedVars, stores, phase, op, emitted, nops, lock, cur, hist, pending, events>>

Entry(c) ==
    /\ pc[c] = "locked"
    /\ pc' = [pc EXCEPT ![c] = IF cur[c].path \in DOMAIN stores THEN "found" ELSE "vacant"]
    /\ UNCHANGED <<fixedVars, stores, phase, op, emitted, nops, lock, cur, hist, pending, events>>

OrInsertWith(c) ==
    /\ pc[c] = "vacant"
    /\ stores' = [q \in DOMAIN stores \cup {cur[c].path} |->
                    IF q = cur[c].path THEN StoreFileLoad(StoreFileNew(q), disk) ELSE stores[q]]
    /\ pc' = [pc EXCEPT ![c] = "found"]
    /\ UNCHANGED <<fixedVars, phase, op, emitted, nops, lock, cur, hist, pending, events>>

\* StoreFile::load inside or_insert_with: app_dir() is None and expect() panics.
PanicInLoad(c) ==
    /\ pc[c] = "vacant"
    /\ lock' = Poisoned
    /\ pc' = [pc EXCEPT ![c] = "panicked"]
    /\ UNCHANGED <<fixedVars, stores, phase, op, emitted, nops, cur, hist, pending, events>>

\* An f that changes the store and releases the guard before it emits.
CallFUnlocking(c, seed) ==
    /\ pc[c] = "found"
    /\ LET r == ApplyF(cur[c], stores[cur[c].path], seed)
           done == [cur[c] EXCEPT !.ret = r.ret]
       IN  /\ stores' = [stores EXCEPT ![cur[c].path] = r.store]
           /\ emitted' = r.emitted
           /\ op' = done
           /\ hist' = Append(hist, [caller |-> c, op |-> done, ev |-> r.emitted])
           /\ pending' = [pending EXCEPT ![c] = r.emitted]
           /\ pc' = [pc EXCEPT ![c] = IF r.emitted = <<>> THEN "applied" ELSE "emitting"]
    /\ lock' = NoHolder
    /\ UNCHANGED <<fixedVars, phase, nops, cur, events>>
\* f up to its first emit call: the store is changed and the result is known.
CallF(c, seed) ==
    /\ pc[c] = "found"
    /\ LET r == ApplyF(cur[c], stores[cur[c].path], seed)
           done == [cur[c] EXCEPT !.ret = r.ret]
       IN  /\ stores' = [stores EXCEPT ![cur[c].path] = r.store]
           /\ emitted' = r.emitted
           /\ op' = done
           /\ hist' = Append(hist, [caller |-> c, op |-> done, ev |-> r.emitted])
           /\ pending' = [pending EXCEPT ![c] = r.emitted]
           /\ pc' = [pc EXCEPT ![c] = IF r.emitted = <<>> THEN "applied" ELSE "emitting"]
    /\ UNCHANGED <<fixedVars, phase, nops, lock, cur, events>>

\* window.emit: the next emit call of f; f returns after the last one.
Emit(c) ==
    /\ pc[c] = "emitting"
    /\ events' = Append(events, [caller |-> c, payload |-> Head(pending[c])])
    /\ pending' = [pending EXCEPT ![c] = Tail(pending[c])]
    /\ pc' = [pc EXCEPT ![c] = IF Tail(pending[c]) = <<>> THEN "applied" ELSE "emitting"]
    /\ UNCHANGED <<fixedVars, stores, phase, op, emitted, nops, lock, cur, hist>>

Release(c) ==
    /\ pc[c] = "applied"
    /\ lock' = (IF lock = c THEN NoHolder ELSE lock)
    /\ pc' = [pc EXCEPT ![c] = "idle"]
    /\ UNCHANGED <<fixedVars, stores, phase, op, emitted, nops, cur, hist, pending, events>>

\* on_event(Exit) when the Mutex is poisoned: lock().unwrap() panics before
\* any store is visited.
OnEventExitPoisoned ==
    /\ impl = "plugin"
    /\ phase = "running"
    /\ MutexPoisoned(lock)
    /\ phase' = "exited"
    /\ op' = Op("exit", StorePath, 1, Null, Ret("Panic"))
    /\ emitted' = <<>>
    /\ UNCHANGED <<fixedVars, stores, nops, concVars>>

ConcNext ==
    \/ \E c \in Callers, o \in ConcCommands : Invoke(c, o)
    \/ \E c \in Callers : Acquire(c)
    \/ \E c \in Callers : AcquirePoisoned(c)
    \/ \E c \in Callers : Entry(c)
    \/ \E c \in Callers : OrInsertWith(c)
    \/ \E c \in Callers : PanicInLoad(c)
    \/ \E c \in Callers, seed \in KeySeeds : CallF(c, seed)
    \/ \E c \in Callers : Emit(c)
    \/ \E c \in Callers : Release(c)
    \/ OnEventExitPoisoned

\* The plugin after initialize, its commands invoked by concurrent callers.
InitConc ==
    /\ Init
    /\ impl = "plugin"
    /\ cwd = AppDir
    /\ config = [p \in {} |-> EmptyMap]
SpecConc == InitConc /\ [][Initialize \/ ConcNext]_vars

\* ------------------------------------------------------------- properties
\* A step that performed an operation (its record is op').
Stepped == nops' = nops + 1

\* What get(key) on the store at path p finds: None also when the plugin
\* has no store for p.
LookupIn(ss, st, p, key) ==
    IF impl = "plugin"
    THEN (IF p \in DOMAIN ss THEN MapGet(ss[p].cache, key) ELSE None)
    ELSE (IF p = st.path THEN MapGet(st.cache, key) ELSE None)
Lookup(p, key) == LookupIn(stores, store, p, key)
LookupAfter(p, key) == LookupIn(stores', store', p, key)

\* Whether operation o may change key of the store at path p.
Touches(o, p, key) ==
    /\ o.path = p
    /\ \/ o.name \in {"insert", "set", "delete"} /\ o.key = key
       \/ o.name \in {"clear", "reset", "load", "build"}

\* C1: once set(K, V) (Store::insert, the set command) has run, K holds V:
\* get(K) returns Some(V) and has(K) returns true, and K keeps V through every
\* operation other than a set or delete of K, a clear, a reset or a load.
C1_SetThenGet ==
    [][Stepped =>
        /\ op'.name \in {"insert", "set"} => LookupAfter(op'.path, op'.key) = Some(op'.value)
        /\ op'.name = "get" /\ Lookup(op'.path, op'.key).tag = "Some"
              => op'.ret = Lookup(op'.path, op'.key)
        /\ op'.name = "has" /\ Lookup(op'.path, op'.key).tag = "Some"
              => op'.ret = Bool(TRUE)
        /\ \A p \in Paths, k \in Keys :
              Lookup(p, k).tag = "Some" /\ ~Touches(op', p, k) /\ op'.name # "exit"
                  => LookupAfter(p, k) = Lookup(p, k)
    ]_vars

\* A get that returned the value an earlier set stored, other operations in between.
C1_Witness ==
    /\ op.name = "get"
    /\ op.ret \in {Some(1), Some(2)}
    /\ nops = 3

\* C2: reset() on a store built with defaults D leaves cache = D and emits a
\* change event for every key whose value differed from its default: the default
\* value for a key of D, also when the key had been deleted, and null for a key
\* that is not in D.
C2_ResetEmitsForEveryChangedKey ==
    [][Stepped /\ impl = "store" /\ op'.name = "reset" /\ store.defaults.some =>
        /\ store'.cache = store.defaults.map
        /\ \A k \in Keys :
              MapGet(store.cache, k) # MapGet(store.defaults.map, k)
                  => \E i \in 1..Len(emitted') :
                        emitted'[i] = ChangePayload(store.path, k,
                            IF k \in DOMAIN store.defaults.map THEN store.defaults.map[k] ELSE Null)
    ]_vars

\* C3: when the plugin is initialized with a configuration giving path P the
\* defaults D, a store for P seeded with D exists before any command runs, and
\* the first get(P, K), with no backing file, returns D[K].
C3_ConfiguredDefaultsSeeded ==
    /\ impl = "plugin" /\ phase = "running"
          => \A p \in DOMAIN config :
                p \in DOMAIN stores /\ stores[p].defaults = SomeDefaults(config[p])
    /\ (/\ impl = "plugin" /\ op.name = "get" /\ nops = 1
        /\ op.path \in DOMAIN config
        /\ op.key \in DOMAIN config[op.path]
        /\ ~disk[Join(AppDir, op.path)].exists)
          => op.ret = Some(config[op.path][op.key])

\* The file load reads, decoded with the codec of the linked Store.
Decoded(p) == Deserialize(impl, disk[Join(AppDir, p)].bytes)

\* C4: a successful load() merges the decoded entries into the cache: a decoded
\* key takes the decoded value, a key only in memory keeps its value, and no
\* key is removed.
C4_LoadMerges ==
    [][Stepped /\ impl \in {"store", "store_file"} /\ op'.name = "load" /\ op'.ret = Ret("Ok") =>
        /\ \A k \in DOMAIN Decoded(store.path).map : MapGet(store'.cache, k) = Some(Decoded(store.path).map[k])
        /\ \A k \in DOMAIN store.cache \ DOMAIN Decoded(store.path).map :
              MapGet(store'.cache, k) = Some(store.cache[k])
    ]_vars

\* C5: save() followed by load() into a fresh Store of the same path, with an
\* empty cache, reproduces the saved cache: the load succeeds and the cache is
\* the cache at the time of the save.
C5_SaveThenFreshLoad ==
    [][(/\ Stepped /\ impl \in {"store", "store_file"} /\ op'.name = "load"
        /\ store.cache = EmptyMap
        /\ store.path \in DOMAIN saved) =>
        /\ op'.ret = Ret("Ok")
        /\ store'.cache = saved[store.path]
    ]_vars

\* C6: what the shutdown pass saved is what the plugin loads on the next start:
\* after shutdown and restart the first get(P, K) returns the value K had in
\* the store at P at shutdown.
C6_ShutdownStateReloaded ==
    [][(/\ Stepped /\ impl = "plugin" /\ op'.name = "get"
        /\ op'.path \notin DOMAIN stores
        /\ op'.path \in DOMAIN saved) =>
        op'.ret = MapGet(saved[op'.path], op'.key)
    ]_vars

\* C8: if load() fails, because the file cannot be read (Io) or because the
\* codec rejects its bytes (Deserialize), the cache is what it was before the
\* call and the error is returned; load fails in exactly these two cases.
C8_FailedLoadKeepsCache ==
    [][Stepped /\ impl \in {"store", "store_file"} /\ op'.name = "load" =>
        /\ op'.ret = (IF ~disk[Join(AppDir, store.path)].exists THEN Ret("Io")
                      ELSE IF ~Decoded(store.path).ok THEN Ret("Deserialize")
                      ELSE Ret("Ok"))
        /\ op'.ret # Ret("Ok") => store' = store
    ]_vars

\* A load that the codec refused, on a store whose cache holds entries.
C8_Witness ==
    /\ op.name = "load"
    /\ op.ret = Ret("Deserialize")
    /\ store.cache # EmptyMap

\* What a command returns, and the cache it leaves, on a store just constructed
\* by StoreFile::new.
OnNewStore(o) ==
    CASE o.name = "set" -> [cache |-> [k \in {o.key} |-> o.value], ret |-> Ret("Ok")]
      [] o.name = "get" -> [cache |-> EmptyMap, ret |-> None]
      [] o.name \in {"has", "delete"} -> [cache |-> EmptyMap, ret |-> Bool(FALSE)]
      [] OTHER -> [cache |-> EmptyMap, ret |-> Ret("Ok")]

\* C9: on the first reference to a path through with_store, a load that fails
\* (the backing file is missing or corrupt) is swallowed: the store is inserted
\* in its constructed state, and the command is applied to it and returns its
\* normal result.
C9_FirstLoadFailureSwallowed ==
    [][(/\ Stepped /\ impl = "plugin" /\ op'.name # "exit"
        /\ op'.path \notin DOMAIN stores
        /\ ~(disk[Join(AppDir, op'.path)].exists /\ Decoded(op'.path).ok)) =>
        /\ op'.path \in DOMAIN stores'
        /\ stores'[op'.path].path = op'.path
        /\ stores'[op'.path].defaults = NoDefaults
        /\ stores'[op'.path].cache = OnNewStore(op').cache
        /\ op'.ret = OnNewStore(op').ret
        /\ emitted' = (IF op'.name = "set"
                       THEN <<ChangePayload(op'.path, op'.key, op'.value)>> ELSE <<>>)
    ]_vars

\* A store created by a get on a path whose backing file is corrupt.
C9_Witness ==
    /\ impl = "plugin"
    /\ op.name = "get"
    /\ nops = 1
    /\ disk[Join(AppDir, op.path)] = File(CorruptBytes)
    /\ op.path \in DOMAIN stores

\* C10: the shutdown pass completes whatever happens to the single saves, and a
\* failure to save one store (file creation, encoding or write) does not keep
\* the others from being saved: every store whose own save meets no error has
\* its cache in its file afterwards.
C10_ShutdownSavesTheOthers ==
    impl = "plugin" /\ op.name = "exit" =>
        /\ phase = "exited"
        /\ \A p \in DOMAIN stores :
              env[p] = "ok" =>
                  /\ disk[ExitSavePath(stores[p], cwd)].exists
                  /\ bincode_deserialize(disk[ExitSavePath(stores[p], cwd)].bytes)
                        = [ok |-> TRUE, map |-> stores[p].cache]

\* A shutdown where the save of one store failed and another was written.
C10_Witness ==
    /\ op.name = "exit"
    /\ \E p, q \in DOMAIN stores :
          /\ env[p] \in {"create_err", "serialize_err", "write_err"}
          /\ env[q] = "ok"
          /\ stores[q].cache # EmptyMap

\* The stores that result from applying the commands of h one after the other,
\* each in full, to the collection ss; ok says that each returned what h records.
RECURSIVE Replay(_, _, _)
Replay(h, ss, d) ==
    IF h = <<>> THEN [stores |-> ss, ok |-> TRUE]
    ELSE LET o == Head(h).op
             ent == WithStoreEntry(ss, d, o.path)
             r == ApplyF(o, ent[o.path], CHOOSE seed \in KeySeeds : TRUE)
         IN  IF r.ret # o.ret THEN [stores |-> ss, ok |-> FALSE]
             ELSE Replay(Tail(h), [ent EXCEPT ![o.path] = r.store], d)

\* No command is between lock() and the return of with_store.
Quiescent == \A c \in Callers : pc[c] \in {"idle", "wait"}

\* C7: concurrent callers of set/delete/clear/reset/get on one path never lose
\* an update: whenever no command is in progress, the collection is what the
\* commands applied so far give when run one after the other in the order they
\* got the lock, each returned what it returns in that run, and every command
\* that was invoked and is not waiting for the lock is among them; and a caller
\* that found the entry vacant still finds it vacant when it creates and loads
\* the store, so that a store is created and loaded once.
C7_NoLostUpdate ==
    /\ \A c \in Callers : pc[c] = "vacant" => cur[c].path \notin DOMAIN stores
    /\ Quiescent =>
          /\ Replay(hist, EmptyCollection, disk) = [stores |-> stores, ok |-> TRUE]
          /\ Len(hist) = nops - Cardinality({c \in Callers : pc[c] = "wait"})

\* Two callers have both changed the store, and the second saw the first's update.
C7_Witness ==
    /\ Quiescent
    /\ Len(hist) = 3
    /\ hist[1].caller # hist[2].caller
    /\ hist[1].op.name = "set"
    /\ hist[2].op.name = "delete" /\ hist[2].op.ret = Bool(TRUE)

\* The store an operation on path p works on: the Store under test, or the
\* entry with_store resolves, created and loaded when the collection has none.
Resolved(p) == IF impl = "plugin" THEN WithStoreEntry(stores, disk, p)[p] ELSE store
ResolvedAfter(p) == IF impl = "plugin" THEN stores'[p] ELSE store'

\* C11: delete(K) on a store where K is present returns true, removes K, so
\* that get(K) is None and has(K) is false afterwards, and emits exactly one
\* change event, for K with value null.
C11_DeletePresent ==
    [][(/\ Stepped /\ op'.name = "delete"
        /\ op'.key \in DOMAIN Resolved(op'.path).cache) =>
        /\ op'.ret = Bool(TRUE)
        /\ LookupAfter(op'.path, op'.key) = None
        /\ emitted' = <<ChangePayload(op'.path, op'.key, Null)>>
    ]_vars

\* C12: for a key K that is not in the cache, get(K) is None, has(K) is false,
\* and delete(K) returns false, emits no change event and leaves the cache as
\* it was.
C12_AbsentKey ==
    [][(/\ Stepped /\ op'.name \in {"get", "has", "delete"}
        /\ op'.key \notin DOMAIN Resolved(op'.path).cache) =>
        /\ op'.name = "get" => op'.ret = None
        /\ op'.name = "has" => op'.ret = Bool(FALSE)
        /\ op'.name = "delete" => op'.ret = Bool(FALSE)
        /\ emitted' = <<>>
        /\ ResolvedAfter(op'.path).cache = Resolved(op'.path).cache
    ]_vars

\* A delete of a key that is not in a cache holding another key.
C12_Witness ==
    /\ op.name = "delete"
    /\ op.ret = Bool(FALSE)
    /\ Lookup(op.path, op.key) = None
    /\ \E k \in Keys : Lookup(op.path, k).tag = "Some"

\* The number of emit calls in ev that are for key k.
EventsFor(ev, k) == Cardinality({i \in 1..Len(ev) : ev[i].key = k})

\* C13: clear() on a store holding N keys leaves the cache empty and emits
\* exactly N change events: one for each key that was present, with value null.
C13_ClearEmitsOnePerKey ==
    [][Stepped /\ op'.name = "clear" =>
        /\ ResolvedAfter(op'.path).cache = EmptyMap
        /\ Len(emitted') = Cardinality(DOMAIN Resolved(op'.path).cache)
        /\ \A k \in DOMAIN Resolved(op'.path).cache : EventsFor(emitted', k) = 1
        /\ \A i \in 1..Len(emitted') :
              emitted'[i] = ChangePayload(op'.path, emitted'[i].key, Null)
    ]_vars

\* What an operation did: the cache it left, its emit calls and its result.
Outcome(cache, ev, ret) == [cache |-> cache, emitted |-> ev, ret |-> ret]
\* The outcomes clear() can have on store s, and those reset() can have.
ClearOutcomes(s) ==
    IF impl = "plugin"
    THEN {LET r == ClearF(s, KeyOrder(s.cache, seed))
          IN  Outcome(r.store.cache, r.emitted, r.ret) : seed \in KeySeeds}
    ELSE {LET r == StoreClear(s, KeyOrder(s.cache, seed), failAt)
          IN  Outcome(r.cache, r.emitted, r.ret) :
              seed \in KeySeeds, failAt \in 0..Cardinality(DOMAIN s.cache)}
ResetOutcomes(s) ==
    IF impl = "plugin"
    THEN {LET r == ResetF(s, KeyOrder(s.cache, seed))
          IN  Outcome(r.store.cache, r.emitted, r.ret) : seed \in KeySeeds}
    ELSE {LET r == StoreReset(s, KeyOrder(s.cache, seed), failAt)
          IN  Outcome(r.cache, r.emitted, r.ret) :
              seed \in KeySeeds, failAt \in 0..Cardinality(DOMAIN s.cache)}

\* C14: on a store with no defaults reset() does what clear() does from the
\* same state: a reset leaves the empty cache, with emit calls and a result
\* that clear() can produce there, and what a clear does there reset() can
\* produce too.
C14_ResetWithoutDefaultsIsClear ==
    [][(/\ Stepped /\ op'.name \in {"reset", "clear"}
        /\ ~Resolved(op'.path).defaults.some) =>
        /\ ResolvedAfter(op'.path).cache = EmptyMap
        /\ Outcome(ResolvedAfter(op'.path).cache, emitted', op'.ret)
              \in (IF op'.name = "reset" THEN ClearOutcomes(Resolved(op'.path))
                   ELSE ResetOutcomes(Resolved(op'.path)))
    ]_vars

\* A reset of a store without defaults that held two keys.
C14_Witness ==
    /\ op.name = "reset"
    /\ (IF impl = "plugin" THEN op.path \in DOMAIN stores /\ ~stores[op.path].defaults.some
        ELSE ~store.defaults.some)
    /\ Len(emitted) = 2

\* C15: set(K, V) emits exactly one change event, carrying K and V, also when
\* K already holds V, and in that case leaves the cache as it was.
C15_SetAlwaysEmits ==
    [][Stepped /\ op'.name \in {"insert", "set"} =>
        /\ emitted' = <<ChangePayload(op'.path, op'.key, op'.value)>>
        /\ MapGet(Resolved(op'.path).cache, op'.key) = Some(op'.value)
              => ResolvedAfter(op'.path).cache = Resolved(op'.path).cache
    ]_vars

\* An insert of the value the key holds since construction.
C15_Witness ==
    /\ impl = "store" /\ nops = 1
    /\ op.name = "insert" /\ op.key = 1 /\ op.value = 1
    /\ store.defaults.some /\ MapGet(store.defaults.map, 1) = Some(1)
    /\ emitted = <<ChangePayload(op.path, 1, 1)>>

\* C20: reset() with defaults emits no spurious event: for a key that was in
\* the cache there is one event if its value was not its default, carrying the
\* default or null when it has none, and no event if it held its default; and
\* there are no events for other keys.
C20_ResetNoSpuriousEvents ==
    [][(/\ Stepped /\ op'.name = "reset"
        /\ Resolved(op'.path).defaults.some) =>
        LET s == Resolved(op'.path)
            d == s.defaults.map
        IN  /\ \A k \in DOMAIN s.cache :
                  IF MapGet(d, k) = Some(s.cache[k]) THEN EventsFor(emitted', k) = 0
                  ELSE /\ EventsFor(emitted', k) = 1
                       /\ \E i \in 1..Len(emitted') :
                             emitted'[i] = ChangePayload(op'.path, k,
                                                         IF k \in DOMAIN d THEN d[k] ELSE Null)
            /\ \A i \in 1..Len(emitted') : emitted'[i].key \in DOMAIN s.cache
    ]_vars

\* A reset with defaults whose only event is for a key that has no default.
C20_Witness ==
    /\ op.name = "reset"
    /\ impl = "store" /\ store.defaults.some
    /\ Len(emitted) = 1
    /\ emitted[1].key \notin DOMAIN store.defaults.map
    /\ emitted[1].value = Null

\* C17: a store built with defaults has every key of the defaults in its
\* cache when it is constructed, and a key of the defaults that is in the
\* cache stays there through every operation except a delete of that key and
\* a clear; in particular load() removes no default key, neither an explicit
\* load nor the load of the stores that initialize builds from the
\* configuration.
C17_DefaultKeysStay ==
    /\ (impl \in {"store", "store_file"} /\ store.defaults.some
           => DOMAIN store.defaults.map \subseteq DOMAIN store.cache)
    /\ [][/\ Stepped /\ impl \in {"store", "store_file"} =>
               /\ op'.name = "build" /\ store'.defaults.some
                     => DOMAIN store'.defaults.map \subseteq DOMAIN store'.cache
               /\ op'.name # "build" /\ store.defaults.some
                     => \A k \in DOMAIN store.defaults.map \cap DOMAIN store.cache :
                           \/ k \in DOMAIN store'.cache
                           \/ op'.name = "delete" /\ op'.key = k
                           \/ op'.name = "clear"
          /\ phase = "init" /\ phase' = "running" =>
               \A p \in DOMAIN config :
                  DOMAIN config[p] \subseteq DOMAIN ConfiguredStores(config, disk)[p].cache
       ]_vars

\* C16: once the Mutex of the collection is poisoned, a command that reaches
\* lock() aborts and so does the shutdown pass: no caller gets the guard, no
\* store is read or changed, no file is written and no change event is emitted.
C16_PoisonedLockAborts ==
    [][MutexPoisoned(lock) =>
        /\ lock' = lock
        /\ UNCHANGED <<stores, disk, hist, pending, events>>
        /\ \A c \in Callers :
              pc'[c] # pc[c] => \/ pc[c] = "idle" /\ pc'[c] = "wait"
                                \/ pc[c] = "wait" /\ pc'[c] = "aborted"
        /\ phase' # phase => phase' = "exited" /\ op'.ret = Ret("Panic") /\ emitted' = <<>>
    ]_vars

\* A command and the shutdown pass have both aborted on the poisoned Mutex.
C16_Witness ==
    /\ MutexPoisoned(lock)
    /\ \E c \in Callers : pc[c] = "aborted"
    /\ phase = "exited"
    /\ op.ret = Ret("Panic")

\* The emit calls of the commands of h, in the order of h.
RECURSIVE EventsOf(_)
EventsOf(h) ==
    IF h = <<>> THEN <<>>
    ELSE [i \in 1..Len(Head(h).ev) |-> [caller |-> Head(h).caller, payload |-> Head(h).ev[i]]]
         \o EventsOf(Tail(h))

\* The value of the last emit call in ev for key k of path p.
RECURSIVE LastValue(_, _, _)
LastValue(ev, p, k) ==
    IF ev = <<>> THEN None
    ELSE LET e == ev[Len(ev)].payload
         IN  IF e.path = p /\ e.key = k THEN Some(e.value)
             ELSE LastValue(SubSeq(ev, 1, Len(ev) - 1), p, k)

\* C19: a command makes its emit calls while it holds the guard, before it
\* returns; the calls made so far are, in order, a prefix of the calls of the
\* commands in the order they got the lock, and all of them once no command
\* is in progress, so that the calls of two commands never interleave; and
\* then the last call for a key carries the value the key has in the cache,
\* null for a key the cache no longer has.
C19_EventsInLockOrder ==
    /\ \A c \in Callers : pending[c] # <<>> => lock = c /\ pc[c] = "emitting"
    /\ Len(events) <= Len(EventsOf(hist))
    /\ events = SubSeq(EventsOf(hist), 1, Len(events))
    /\ Quiescent =>
          /\ events = EventsOf(hist)
          /\ \A p \in DOMAIN stores, k \in Keys :
                LastValue(events, p, k).tag = "Some" =>
                    LastValue(events, p, k).val =
                        (IF k \in DOMAIN stores[p].cache THEN stores[p].cache[k] ELSE Null)

\* Two callers have set the same key to different values; both events are out.
C19_Witness ==
    /\ Quiescent
    /\ Len(events) = 2
    /\ events[1].caller # events[2].caller
    /\ events[1].payload.key = events[2].payload.key
    /\ events[1].payload.value # events[2].payload.value
    /\ events[2].payload.value # Null

\* The commands that go through with_store.
CommandNames == {"set", "get", "has", "delete", "clear", "reset"}

\* C18: with_store creates and loads a store for a path only when the
\* collection has none for it; otherwise the command works on the store the
\* collection holds, which is not read from disk again, so that it sees what
\* the calls before it wrote whatever has become of the backing file; the
\* collection gains at most the entry for that path and the stores of the
\* other paths stay as they are.
C18_OneStorePerPath ==
    [][Stepped /\ impl = "plugin" /\ op'.name \in CommandNames =>
        LET p == op'.path
            s == IF p \in DOMAIN stores THEN stores[p]
                 ELSE StoreFileLoad(StoreFileNew(p), disk)
        IN  /\ DOMAIN stores' = DOMAIN stores \cup {p}
            /\ \A q \in DOMAIN stores \ {p} : stores'[q] = stores[q]
            /\ \E seed \in KeySeeds :
                  /\ stores'[p] = ApplyF(op', s, seed).store
                  /\ op'.ret = ApplyF(op', s, seed).ret
    ]_vars

\* A get that returned the cached value of a key which the backing file,
\* replaced since the store was created, does not hold.
C18_Witness ==
    /\ impl = "plugin" /\ nops = 3
    /\ op.name = "get" /\ op.key = NumKeys /\ op.ret = Some(2)
    /\ stores[op.path].cache = SampleMap
    /\ disk[Join(AppDir, op.path)] = OtherFile

\* C21: a command on path P leaves the store of every other path as it was,
\* cache and defaults, also when it creates the store for P, and every change
\* event it emits carries P.
C21_StoresAreIndependent ==
    [][Stepped /\ impl = "plugin" /\ op'.name \in CommandNames =>
        /\ \A q \in DOMAIN stores \ {op'.path} :
              /\ q \in DOMAIN stores'
              /\ stores'[q].cache = stores[q].cache
              /\ stores'[q].defaults = stores[q].defaults
        /\ \A i \in 1..Len(emitted') : emitted'[i].path = op'.path
    ]_vars

\* A clear that emitted an event while the store of another path holds a key.
C21_Witness ==
    /\ impl = "plugin"
    /\ op.name = "clear"
    /\ Len(emitted) >= 1
    /\ \E q \in DOMAIN stores : q # op.path /\ stores[q].cache # EmptyMap

\* C22: in store.rs a failed emit call neither skips nor undoes the change of
\* the cache: after insert(K, V), Ok or Err, K holds V; after delete(K) of a
\* present key, Ok or Err, K is absent; after clear(), Ok or Err, the cache is
\* empty, an Err only cutting short the emit calls; and reset() with defaults
\* returns Ok with the cache equal to the defaults.
C22_EmitFailureKeepsMutation ==
    [][Stepped /\ impl = "store" =>
        /\ op'.name = "insert" =>
              /\ MapGet(store'.cache, op'.key) = Some(op'.value)
              /\ op'.ret \in {Ret("Ok"), Ret("Tauri")}
        /\ op'.name = "delete" /\ op'.key \in DOMAIN store.cache =>
              /\ op'.key \notin DOMAIN store'.cache
              /\ op'.ret \in {Bool(TRUE), Ret("Tauri")}
        /\ op'.name = "clear" =>
              /\ store'.cache = EmptyMap
              /\ op'.ret \in {Ret("Ok"), Ret("Tauri")}
              /\ \A i \in 1..Len(emitted') :
                    /\ emitted'[i].key \in DOMAIN store.cache
                    /\ EventsFor(emitted', emitted'[i].key) = 1
              /\ op'.ret = Ret("Ok") => Len(emitted') = Cardinality(DOMAIN store.cache)
              /\ op'.ret = Ret("Tauri") => Len(emitted') >= 1
        /\ op'.name = "reset" /\ store.defaults.some =>
              /\ store'.cache = store.defaults.map
              /\ op'.ret = Ret("Ok")
    ]_vars

\* A clear that returned Err after its first emit call and left the cache empty.
C22_Witness ==
    /\ impl = "store"
    /\ op.name = "clear"
    /\ op.ret = Ret("Tauri")
    /\ Len(emitted) = 1
    /\ store.cache = EmptyMap

\* C23: save() changes neither the cache nor the defaults and emits nothing,
\* and when the encoding fails (Serialize) no file is created, truncated or
\* written: the backing file keeps its contents.
C23_FailedEncodeKeepsFile ==
    [][Stepped /\ impl \in {"store", "store_file"} /\ op'.name = "save" =>
        /\ store' = store
        /\ emitted' = <<>>
        /\ op'.ret = Ret("Serialize") => disk' = disk
    ]_vars

\* A save whose encoding failed on a store with entries, over a file that an
\* earlier save wrote.
C23_Witness ==
    /\ impl \in {"store", "store_file"}
    /\ op.name = "save"
    /\ op.ret = Ret("Serialize")
    /\ store.cache # EmptyMap
    /\ nops >= 2
    /\ store.path \in DOMAIN saved
    /\ disk[IF impl = "store" THEN StoreSavePath(store, cwd) ELSE SfSavePath(store, cwd)].exists

====
